---- MODULE Spec2Model ----
(***************************************************************************)
(* A model of src/carbon_model.py: one run of main(), from load_data to    *)
(* save_model.  The scikit-learn / pandas calls the script makes are       *)
(* modelled by what they do to the values the script later reads:          *)
(* select_dtypes, ColumnTransformer / SimpleImputer output widths,         *)
(* Pipeline.fit on the step objects, r2_score, the DataFrame constructor   *)
(* and sort_values.                                                        *)
(***************************************************************************)
EXTENDS Integers, Sequences, FiniteSets

VARIABLES pc, df, numerical_cols, categorical_cols, pipelines, fitGen,
          y_test, i, results, best_model, best_score, exposes,
          analysis, feature_names, importances, importance_df, artifacts, dumped, err

vars == <<pc, df, numerical_cols, categorical_cols, pipelines, fitGen,
          y_test, i, results, best_model, best_score, exposes,
          analysis, feature_names, importances, importance_df, artifacts, dumped, err>>

(* ------------------------------ bounds -------------------------------- *)
\* most feature columns of the input table
MaxCols == 2
\* most columns the table has after one-hot expansion
MaxFeat == 2
\* most rows of the held-out split
MaxTest == 2
\* importance scores range over 0..MaxImp
MaxImp == 1

(* ----------------------------- constants ------------------------------ *)
\* the values a target or a prediction takes: two, so that a held-out
\* target is constant or not and a prediction is exact or off by one
Targets == {0, 1}

None == "None"

\* models = {'Random Forest': rf_pipeline, 'Gradient Boosting': gb_pipeline}
ModelOrder == <<"Random Forest", "Gradient Boosting">>

Names == {ModelOrder[k] : k \in 1..Len(ModelOrder)}

PlotFile == "feature_importance.png"

ModelFile == "model.pkl"

\* select_dtypes(include=['object', 'category'])
CategoricalDTypes == {"object", "category"}

\* select_dtypes(include=['int64', 'float64'])
NumericalDTypes == {"int64", "float64"}

\* the column types pd.read_csv infers
DTypes == {"int64", "float64", "object", "bool"}

(* --------------------------- the input table -------------------------- *)
\* A feature column: its dtype, the number of distinct categories the
\* training split shows (object columns), and whether every training value
\* is missing (float64 columns; an int64 column holds no NaN).
ColKinds ==
    {[dtype |-> d, ncat |-> 0, allnan |-> FALSE] : d \in DTypes \ {"object"}}
    \cup {[dtype |-> "float64", ncat |-> 0, allnan |-> TRUE]}
    \cup {[dtype |-> "object", ncat |-> k, allnan |-> FALSE] : k \in 1..MaxFeat}

RECURSIVE SumNcat(_, _)
SumNcat(cols, idx) ==
    IF idx = <<>> THEN 0
    ELSE cols[Head(idx)].ncat + SumNcat(cols, Tail(idx))

\* DataFrame.select_dtypes(include=...).columns.tolist(): the columns whose
\* dtype is one of those listed, in table order
select_dtypes(cols, include) ==
    LET F[k \in 0..Len(cols)] ==
            IF k = 0 THEN <<>>
            ELSE IF cols[k].dtype \in include THEN Append(F[k - 1], k)
                 ELSE F[k - 1]
    IN F[Len(cols)]

\* width of the ColumnTransformer output: one column per numerical column,
\* one per observed category; columns in neither list are dropped
\* (remainder='drop')
CtOut(cols, num, cat) == Len(num) + SumNcat(cols, cat)

\* SimpleImputer(strategy='median') drops the columns without any observed
\* value in the training split
Observed(cols, num) == SelectSeq(num, LAMBDA c : ~cols[c].allnan)

ImputerOut(cols, num, cat) == Len(Observed(cols, num)) + SumNcat(cols, cat)

Tables ==
    {t \in UNION {[1..n -> ColKinds] : n \in 0..MaxCols} :
        CtOut(t, select_dtypes(t, NumericalDTypes),
                 select_dtypes(t, CategoricalDTypes)) <= MaxFeat}

(* ------------------------------- metrics ------------------------------ *)
RECURSIVE GCD(_, _)
GCD(a, b) == IF b = 0 THEN a ELSE GCD(b, a % b)

Abs(x) == IF x < 0 THEN -x ELSE x

Rat(n, d) ==
    LET g == GCD(Abs(n), d)
    IN [kind |-> "num", n |-> n \div g, d |-> d \div g]

NaN == [kind |-> "nan", n |-> 0, d |-> 1]

\* -float('inf')
NegInf == [kind |-> "-inf", n |-> 0, d |-> 1]

RECURSIVE SumSeq(_)
SumSeq(s) == IF s = <<>> THEN 0 ELSE Head(s) + SumSeq(Tail(s))

\* sklearn.metrics.r2_score: NaN on fewer than two samples; otherwise
\* 1 - SSres/SStot, with the finite stand-ins 1.0 (perfect) and 0.0
\* (imperfect) when SStot = 0.  Both sums are scaled by n to stay integral.
r2_score(y_true, y_pred) ==
    LET n   == Len(y_true)
        num == n * SumSeq([k \in 1..n |-> (y_true[k] - y_pred[k]) * (y_true[k] - y_pred[k])])
        den == n * SumSeq([k \in 1..n |-> y_true[k] * y_true[k]])
               - SumSeq(y_true) * SumSeq(y_true)
    IN IF n < 2 THEN NaN
       ELSE IF den # 0 THEN Rat(den - num, den)
       ELSE IF num = 0 THEN Rat(1, 1)
       ELSE Rat(0, 1)

\* the float comparison a > b (False whenever either side is NaN)
Gt(a, b) ==
    /\ a.kind = "num"
    /\ \/ b.kind = "-inf"
       \/ b.kind = "num" /\ a.n * b.d > b.n * a.d

\* a selection that also replaces the best on an equal score
BetterOrEqual(r2, score) == Gt(r2, score) \/ r2 = score

\* if r2 > best_score:
Better(r2, score) == Gt(r2, score)

(* ------------------------------- objects ------------------------------ *)
\* the one ColumnTransformer preprocess_data builds, and the imputer and
\* the estimator each Pipeline constructs for itself
Objects == {"preprocessor", "imputer_rf", "imputer_gb", "rf", "gb"}

Steps == {"preprocessor", "imputer", "model"}

\* rf_pipeline / gb_pipeline: both are handed the same preprocessor object
MakePipelines ==
    [n \in Names |->
        IF n = "Random Forest"
        THEN [preprocessor |-> "preprocessor", imputer |-> "imputer_rf", model |-> "rf"]
        ELSE [preprocessor |-> "preprocessor", imputer |-> "imputer_gb", model |-> "gb"]]

\* Pipeline.fit fits its step objects in place (no clone): each fit of an
\* object replaces that object's fitted parameters
Refit(gen, objs) == [o \in Objects |-> IF o \in objs THEN gen[o] + 1 ELSE gen[o]]

\* best_model = None
NoBest == [name |-> None, pipeline |-> [s \in Steps |-> None]]

\* the value None of importance_df
NoTable == [kind |-> None, rows |-> <<>>]

(* ------------------------------ Init ---------------------------------- *)
InitCommon ==
    /\ pc = "load"
    /\ df = [hasTarget |-> FALSE, cols |-> <<>>]
    /\ numerical_cols = <<>>
    /\ categorical_cols = <<>>
    /\ pipelines = <<>>
    /\ fitGen = [o \in Objects |-> 0]
    /\ y_test = <<>>
    /\ i = 1
    /\ results = <<>>
    /\ best_model = NoBest
    /\ best_score = NegInf
    /\ analysis = "not run"
    /\ feature_names = <<>>
    /\ importances = <<>>
    /\ importance_df = NoTable
    /\ artifacts = {}
    /\ dumped = <<>>
    /\ err = None

\* RandomForestRegressor and GradientBoostingRegressor both expose
\* feature_importances_ once fitted
Init ==
    /\ InitCommon
    /\ exposes = [n \in Names |-> TRUE]

Fail(e) ==
    /\ pc' = "failed"
    /\ err' = e

(* ------------------------------ actions ------------------------------- *)
\* df = load_data(args.data)
LoadData ==
    /\ pc = "load"
    /\ \E t \in Tables, h \in BOOLEAN :
          df' = [hasTarget |-> h, cols |-> t]
    /\ pc' = "preprocess"
    /\ UNCHANGED <<numerical_cols, categorical_cols, pipelines, fitGen, y_test, i,
                   results, best_model, best_score, exposes, analysis,
                   feature_names, importances, importance_df, artifacts, dumped, err>>

\* X, y, preprocessor, categorical_cols, numerical_cols = preprocess_data(df)
PreprocessData ==
    /\ pc = "preprocess"
    /\ IF ~df.hasTarget
       THEN /\ Fail("KeyError")
            /\ UNCHANGED <<numerical_cols, categorical_cols>>
       ELSE /\ categorical_cols' = select_dtypes(df.cols, CategoricalDTypes)
            /\ numerical_cols' = select_dtypes(df.cols, NumericalDTypes)
            /\ pc' = "split"
            /\ UNCHANGED err
    /\ UNCHANGED <<df, pipelines, fitGen, y_test, i, results, best_model,
                   best_score, exposes, analysis, feature_names, importances,
                   importance_df, artifacts, dumped>>

\* train_model, lines 48-71: the split and the construction of the pipelines
TrainTestSplit ==
    /\ pc = "split"
    /\ \E n \in 1..MaxTest : \E y \in [1..n -> Targets] : y_test' = y
    /\ pipelines' = MakePipelines
    /\ results' = <<>>
    /\ best_model' = NoBest
    /\ best_score' = NegInf
    /\ i' = 1
    /\ pc' = "train"
    /\ UNCHANGED <<df, numerical_cols, categorical_cols, fitGen, exposes, analysis,
                   feature_names, importances, importance_df, artifacts, dumped, err>>

\* train_model, lines 73-98: one iteration of the loop over models.items()
TrainCandidate ==
    /\ pc = "train"
    /\ i <= Len(ModelOrder)
    /\ LET name == ModelOrder[i]
           P    == pipelines[name]
           ct   == CtOut(df.cols, numerical_cols, categorical_cols)
           imp  == ImputerOut(df.cols, numerical_cols, categorical_cols)
       IN IF ct = 0
          THEN \* the imputer rejects a matrix with no column
               /\ fitGen' = Refit(fitGen, {P.preprocessor})
               /\ Fail("ValueError")
               /\ UNCHANGED <<results, best_model, best_score, i>>
          ELSE IF imp = 0
          THEN \* the estimator rejects a matrix with no column
               /\ fitGen' = Refit(fitGen, {P.preprocessor, P.imputer})
               /\ Fail("ValueError")
               /\ UNCHANGED <<results, best_model, best_score, i>>
          ELSE /\ fitGen' = Refit(fitGen, {P.preprocessor, P.imputer, P.model})
               /\ \E y_pred \in [1..Len(y_test) -> Targets] :
                     LET r2 == r2_score(y_test, y_pred)
                     IN /\ results' = Append(results, [name |-> name, r2 |-> r2, model |-> P])
                        /\ IF Better(r2, best_score)
                           THEN /\ best_score' = r2
                                /\ best_model' = [name |-> name, pipeline |-> P]
                           ELSE UNCHANGED <<best_score, best_model>>
               /\ i' = i + 1
               /\ pc' = IF i = Len(ModelOrder) THEN "report" ELSE "train"
               /\ UNCHANGED err
    /\ UNCHANGED <<df, numerical_cols, categorical_cols, pipelines, y_test, exposes,
                   analysis, feature_names, importances, importance_df, artifacts, dumped>>

(* -------------------------- importance table -------------------------- *)
\* the one-hot names of the categorical columns, column by column and
\* category by category (get_feature_names_out and the fallback
\* comprehension list the same names in the same order)
RECURSIVE cat_features(_, _)
cat_features(cols, cat) ==
    IF cat = <<>> THEN <<>>
    ELSE [k \in 1..cols[Head(cat)].ncat |-> <<Head(cat), k>>]
         \o cat_features(cols, Tail(cat))

\* feature_names = numerical_cols + cat_features
FeatureNames(cols, num, cat) ==
    [k \in 1..Len(num) |-> <<num[k], 0>>] \o cat_features(cols, cat)

Min(a, b) == IF a < b THEN a ELSE b

\* a table constructor that pairs as many rows as the shorter column has
DataFrameTruncating(names, imps) ==
    [kind |-> "table",
     rows |-> [k \in 1..Min(Len(names), Len(imps)) |->
                  [feature |-> names[k], importance |-> imps[k]]]]

\* pd.DataFrame({'feature': names, 'importance': imps}): arrays of unequal
\* length are rejected with a ValueError
DataFrame(names, imps) ==
    IF Len(names) # Len(imps)
    THEN [kind |-> "ValueError", rows |-> <<>>]
    ELSE [kind |-> "table",
          rows |-> [k \in 1..Len(names) |-> [feature |-> names[k], importance |-> imps[k]]]]

MaxImportance(rows, S) ==
    CHOOSE m \in {rows[k].importance : k \in S} :
        \A k \in S : rows[k].importance <= m

RECURSIVE Orderings(_, _)
Orderings(rows, S) ==
    IF S = {} THEN {<<>>}
    ELSE UNION {{<<rows[k]>> \o t : t \in Orderings(rows, S \ {k})} :
                k \in {j \in S : rows[j].importance = MaxImportance(rows, S)}}

MinImportance(rows, S) ==
    CHOOSE m \in {rows[k].importance : k \in S} :
        \A k \in S : rows[k].importance >= m

RECURSIVE OrderingsAscending(_, _)
OrderingsAscending(rows, S) ==
    IF S = {} THEN {<<>>}
    ELSE UNION {{<<rows[k]>> \o t : t \in OrderingsAscending(rows, S \ {k})} :
                k \in {j \in S : rows[j].importance = MinImportance(rows, S)}}

\* a sort that leaves out ascending=False
sort_values_ascending(rows) == OrderingsAscending(rows, 1..Len(rows))

\* .sort_values('importance', ascending=False): the default kind,
\* 'quicksort', is not a stable sort, so rows of equal importance come out
\* in whatever order the build's sort leaves them
sort_values(rows) == Orderings(rows, 1..Len(rows))

\* an analysis that saves the figure on either branch
AnalysisArtifactsAlways(has) == {PlotFile}

\* the files feature_importance_analysis leaves on disk
AnalysisArtifacts(has) == IF has THEN {PlotFile} ELSE {}

\* a save of the pipeline fitted last instead of the selected one
PipelineLastFitted(model, res) == res[Len(res)].model

\* joblib.dump(model['pipeline'], output_path)
PipelineToSave(model, res) == model.pipeline

\* main, line 162: the 'Best model' report indexes best_model
ReportBest ==
    /\ pc = "report"
    /\ IF best_model.name = None
       THEN Fail("TypeError")
       ELSE pc' = "explain" /\ UNCHANGED err
    /\ UNCHANGED <<df, numerical_cols, categorical_cols, pipelines, fitGen, y_test, i,
                   results, best_model, best_score, exposes, analysis,
                   feature_names, importances, importance_df, artifacts, dumped>>

\* importance_df = feature_importance_analysis(best_model, X, ...)
FeatureImportanceAnalysis ==
    /\ pc = "explain"
    /\ IF ~exposes[best_model.name]
       THEN /\ analysis' = "unavailable"
            /\ importance_df' = NoTable
            /\ artifacts' = artifacts \cup AnalysisArtifacts(FALSE)
            /\ pc' = "save"
            /\ UNCHANGED <<feature_names, importances, err>>
       ELSE \E has_get_feature_names_out \in BOOLEAN :
            IF has_get_feature_names_out /\ categorical_cols = <<>>
            THEN \* named_transformers_['cat'] was never fitted
                 /\ analysis' = "NotFittedError"
                 /\ Fail("NotFittedError")
                 /\ UNCHANGED <<feature_names, importances, importance_df, artifacts>>
            ELSE \E imps \in [1..ImputerOut(df.cols, numerical_cols, categorical_cols)
                              -> 0..MaxImp] :
                 LET names == FeatureNames(df.cols, numerical_cols, categorical_cols)
                     frame == DataFrame(names, imps)
                 IN /\ analysis' = "paired"
                    /\ feature_names' = names
                    /\ importances' = imps
                    /\ IF frame.kind = "ValueError"
                       THEN /\ Fail("ValueError")
                            /\ UNCHANGED <<importance_df, artifacts>>
                       ELSE /\ \E sorted \in sort_values(frame.rows) :
                                  importance_df' = [kind |-> "table", rows |-> sorted]
                            /\ artifacts' = artifacts \cup AnalysisArtifacts(TRUE)
                            /\ pc' = "save"
                            /\ UNCHANGED err
    /\ UNCHANGED <<df, numerical_cols, categorical_cols, pipelines, fitGen, y_test, i,
                   results, best_model, best_score, exposes, dumped>>

\* main, lines 167-172: the top-10 report, then save_model(best_model, args.output)
SaveModel ==
    /\ pc = "save"
    /\ dumped' = Append(dumped, PipelineToSave(best_model, results))
    /\ \E writable \in BOOLEAN :
          IF writable
          THEN /\ artifacts' = artifacts \cup {ModelFile}
               /\ pc' = "done"
               /\ UNCHANGED err
          ELSE /\ Fail("OSError")
               /\ UNCHANGED artifacts
    /\ UNCHANGED <<df, numerical_cols, categorical_cols, pipelines, fitGen, y_test, i,
                   results, best_model, best_score, exposes, analysis,
                   feature_names, importances, importance_df>>

Next ==
    \/ LoadData
    \/ PreprocessData
    \/ TrainTestSplit
    \/ TrainCandidate
    \/ ReportBest
    \/ FeatureImportanceAnalysis
    \/ SaveModel

Spec == Init /\ [][Next]_vars

\* feature_importance_analysis and the rest of main with a selected
\* estimator of either kind: with or without feature_importances_
InitAnyEstimator ==
    /\ InitCommon
    /\ exposes \in [Names -> BOOLEAN]

SpecAnyEstimator == InitAnyEstimator /\ [][Next]_vars

(* ------------------------------- claims ------------------------------- *)
Ge(a, b) == a.kind = "num" /\ b.kind = "num" /\ a.n * b.d >= b.n * a.d

AllEvaluated == Len(results) = Len(ModelOrder)

\* C1: once train_model has scanned every candidate in declared order, the
\* candidate it returns as best has an R2 >= the R2 of every candidate in
\* results and is the first candidate, in declared order, with that R2; it
\* returns no candidate exactly when no candidate has a comparable score.
C1_BestIsFirstMaximum ==
    AllEvaluated =>
        /\ best_model = NoBest <=> \A j \in 1..Len(results) : results[j].r2 = NaN
        /\ best_model # NoBest =>
              \E k \in 1..Len(results) :
                 /\ results[k].name = ModelOrder[k]
                 /\ best_model = [name |-> results[k].name, pipeline |-> results[k].model]
                 /\ best_score = results[k].r2
                 /\ \A j \in 1..Len(results) : Ge(results[k].r2, results[j].r2)
                 /\ \A j \in 1..(k - 1) : results[j].r2 # results[k].r2

\* two candidates tie on the maximum and the first declared one is returned
C1_Witness ==
    /\ AllEvaluated
    /\ results[1].r2 = results[2].r2
    /\ results[1].r2.kind = "num"
    /\ best_model.name = ModelOrder[1]

InSeq(x, s) == \E k \in 1..Len(s) : s[k] = x

Routed == pc \notin {"load", "preprocess"} /\ err # "KeyError"

\* C2: after preprocess_data every feature column is in exactly one of
\* numerical_cols and categorical_cols: none in both, none in neither.
C2_EveryColumnRouted ==
    Routed =>
        \A c \in 1..Len(df.cols) :
            InSeq(c, numerical_cols) # InSeq(c, categorical_cols)

\* C3: every stage object of a candidate chain, its preprocessing plan
\* included, is fitted at most once: fitting a later candidate replaces the
\* fitted parameters of no stage of an earlier candidate.
C3_StagesFittedOnce ==
    \A n \in DOMAIN pipelines : \A s \in Steps : fitGen[pipelines[n][s]] <= 1

\* C4: a run that failed has left no file on disk, neither the model file
\* nor the importance plot.
C4_NoArtifactAfterFailure == pc = "failed" => artifacts = {}

ZeroVariance(y) == Len(y) >= 2 /\ \A k \in 1..Len(y) : y[k] = y[1]

\* C5: with a constant held-out target no R2 is recorded in results, and
\* the evaluation of a candidate ends in UndefinedMetricError.
C5_UndefinedMetricError ==
    ZeroVariance(y_test) =>
        /\ results = <<>>
        /\ i > 1 => err = "UndefinedMetricError"

\* C6: whenever feature_importance_analysis has reconstructed the feature
\* names, there are exactly as many names as importance scores.
C6_NamesMatchImportances ==
    analysis = "paired" => Len(feature_names) = Len(importances)

Mismatch == analysis = "paired" /\ Len(feature_names) # Len(importances)

Pairs ==
    [k \in 1..Len(feature_names) |->
        [feature |-> feature_names[k], importance |-> importances[k]]]

Position(rows, r) == CHOOSE k \in 1..Len(rows) : rows[k] = r

Returned == importance_df.kind = "table"

Descending(rows) ==
    \A k \in 1..(Len(rows) - 1) : rows[k].importance >= rows[k + 1].importance

IsPermutation(rows, of) ==
    /\ Len(rows) = Len(of)
    /\ {rows[k] : k \in 1..Len(rows)} = {of[k] : k \in 1..Len(of)}

Stable(rows, of) ==
    \A j, k \in 1..Len(rows) :
        j < k /\ rows[j].importance = rows[k].importance
            => Position(of, rows[j]) < Position(of, rows[k])

\* C8 as stated: the returned table is a permutation of the pairs, sorted
\* by importance descending, with rows of equal importance in reconstructed
\* order.
C8_StableDescending ==
    Returned =>
        /\ IsPermutation(importance_df.rows, Pairs)
        /\ Descending(importance_df.rows)
        /\ Stable(importance_df.rows, Pairs)

\* C8: the returned table is a permutation of the (feature-name,
\* importance) pairs, sorted by importance descending; the order among rows
\* of equal importance is not fixed.
C8_SortedPermutation ==
    Returned =>
        /\ IsPermutation(importance_df.rows, Pairs)
        /\ Descending(importance_df.rows)

\* the sort has moved a more important row in front of a less important one
C8_Witness ==
    /\ Returned
    /\ Len(Pairs) >= 2
    /\ Pairs[1].importance < Pairs[2].importance
    /\ importance_df.rows[1] = Pairs[2]

AllFitted ==
    \A n \in DOMAIN pipelines : \A s \in Steps : fitGen[pipelines[n][s]] >= 1

\* C9: at most one pipeline is ever handed to the serializer; it is the
\* pipeline of the candidate train_model selected, handed over after every
\* candidate was fitted and evaluated; a successful run has handed over
\* exactly one and written it.
C9_OnlyBestPersisted ==
    /\ Len(dumped) <= 1
    /\ \A k \in 1..Len(dumped) :
          /\ AllEvaluated
          /\ AllFitted
          /\ best_model # NoBest
          /\ dumped[k] = pipelines[best_model.name]
          /\ dumped[k] = best_model.pipeline
    /\ pc = "done" => Len(dumped) = 1 /\ ModelFile \in artifacts

\* a successful run in which the selected candidate is not the one fitted
\* last
C9_Witness ==
    /\ pc = "done"
    /\ best_model.name = ModelOrder[1]
    /\ dumped = <<pipelines[ModelOrder[1]]>>

\* C10: the plot file is on disk only if the selected estimator exposes
\* importances; when it does not, the analysis returns None without raising
\* and without writing the plot, and main goes on to hand the selected
\* pipeline to the serializer, so that only the save itself can still fail.
C10_PlotOnlyWhenAvailable ==
    /\ PlotFile \in artifacts => best_model # NoBest /\ exposes[best_model.name]
    /\ (pc \in {"save", "done"} /\ ~exposes[best_model.name]) => analysis = "unavailable"
    /\ analysis = "unavailable" =>
          /\ importance_df = NoTable
          /\ PlotFile \notin artifacts
          /\ pc \in {"save", "done", "failed"}
          /\ pc = "failed" => err = "OSError"
          /\ pc # "save" => dumped = <<best_model.pipeline>>

\* the analysis was unavailable and the run still saved the model
C10_Witness ==
    /\ analysis = "unavailable"
    /\ pc = "done"
    /\ artifacts = {ModelFile}
====
